---- MODULE Spec2Model ----
(***************************************************************************)
(* Model of the lago-azul rainfall service: the record store filled by the *)
(* ingest-data command, the per-city forecast cache files written by       *)
(* generate_forecast_for_city, the HTTP / CLI handlers around them, the    *)
(* CSV ingestion service, and regenerations that run at the same time.     *)
(*                                                                         *)
(* Time is counted in whole days.  City names are tuples of one-character  *)
(* strings so that lower() and replace() can be computed.  Rainfall        *)
(* amounts are integers (millimetres).                                     *)
(***************************************************************************)
EXTENDS Integers, Sequences, FiniteSets, TLC

VARIABLES store, nextId, cache, now, last, race

vars == <<store, nextId, cache, now, last, race>>

(***************************************************************************)
(* Bounds of the model.                                                    *)
(***************************************************************************)
MaxBatch == 2
MaxNow == 7
MaxChunks == 2
MaxFiles == 2

(***************************************************************************)
(* Program constants.                                                      *)
(***************************************************************************)
MINIMUM_DATA_POINTS == 36
CACHE_LIFETIME_DAYS == 7
N_MONTHS == 12

(***************************************************************************)
(* Dates, city names and the rows that the CSV files can deliver.          *)
(***************************************************************************)
Date(y, m, d) == [y |-> y, m |-> m, d |-> d]

\* Months are numbered from year 0 so that a month range has a length.
MonthIndex(date) == date.y * 12 + (date.m - 1)

DateLess(a, b) ==
    \/ a.y < b.y
    \/ a.y = b.y /\ a.m < b.m
    \/ a.y = b.y /\ a.m = b.m /\ a.d < b.d

\* str.lower() on one character.
Lower(ch) ==
    CASE ch = "A" -> "a"
      [] ch = "B" -> "b"
      [] OTHER -> ch

LowerName(name) == [i \in 1..Len(name) |-> Lower(name[i])]

CityAB == <<"A", "B">>
Cityab == <<"a", "b">>
CityAspB == <<"a", " ", "b">>
CityAusB == <<"a", "_", "b">>
CityAslB == <<"a", "/", "b">>

\* City names that clients and operators pass to the handlers.
RequestCities == {CityAB, Cityab, CityAspB}

Row(date, mm, city, uf, code) ==
    [data |-> date, precipitacao_mm |-> mm, cidade |-> city,
     estado |-> uf, estacao_codigo |-> code]

\* Rows that process_and_consolidate_data can hand to ingest-data.  The
\* second row repeats the (data, estacao_codigo) of the first with another
\* reading.  January 2010 to December 2012 are 36 months, February 2010 to
\* December 2012 are 35.
CoreRows ==
    { Row(Date(2010, 1, 1), 5, CityAB, "SC", "A801"),
      Row(Date(2010, 1, 1), 9, CityAB, "SC", "A801"),
      Row(Date(2010, 2, 1), 0, CityAB, "SC", "A801"),
      Row(Date(2012, 12, 1), 3, CityAB, "SC", "A801") }

\* The same with a row of a second station on a date the first station has.
IncomingRows ==
    CoreRows \cup { Row(Date(2012, 12, 1), 4, CityAB, "SC", "A802") }

\* Two rows 36 months apart, for the runs that mix ingestion with every
\* other operation.
FrameRows ==
    { Row(Date(2010, 1, 1), 5, CityAB, "SC", "A801"),
      Row(Date(2012, 12, 1), 3, CityAB, "SC", "A801") }

Batches(rows) == UNION { [1..n -> rows] : n \in 0..MaxBatch }

(***************************************************************************)
(* The pluviometric_data table.                                            *)
(***************************************************************************)
\* A stored record: the row plus the surrogate id.  Ids are handed out in
\* insertion order; sequence values that the database spends on skipped or
\* rolled-back rows are not counted.
PluviometricData(id, row) ==
    [id |-> id, data |-> row.data, precipitacao_mm |-> row.precipitacao_mm,
     cidade |-> row.cidade, estado |-> row.estado,
     estacao_codigo |-> row.estacao_codigo]

\* The _data_estacao_uc constraint: the columns a conflict is decided on.
UniqueKeyConflict(rec, row) ==
    rec.data = row.data /\ rec.estacao_codigo = row.estacao_codigo

\* Variant: a conflicting row replaces the stored one (DO UPDATE).
RECURSIVE MutInsertOverwrite(_, _, _, _)
MutInsertOverwrite(table, rows, k, id) ==
    IF k = 0 THEN table
    ELSE LET before == MutInsertOverwrite(table, rows, k - 1, id)
             row == rows[k]
             kept == {rec \in before : ~UniqueKeyConflict(rec, row)}
         IN  kept \cup {PluviometricData(id + Cardinality(before), row)}

\* INSERT ... VALUES (rows) ON CONFLICT (data, estacao_codigo) DO NOTHING,
\* applied to the first k rows: each row is inserted unless a row already in
\* the table, or inserted earlier by the same statement, has its key.
RECURSIVE InsertOnConflictDoNothing(_, _, _, _)
InsertOnConflictDoNothing(table, rows, k, id) ==
    IF k = 0 THEN table
    ELSE LET before == InsertOnConflictDoNothing(table, rows, k - 1, id)
             row == rows[k]
         IN  IF \E rec \in before : UniqueKeyConflict(rec, row)
             THEN before
             ELSE before \cup
                    {PluviometricData(id + Cardinality(before \ table), row)}

\* Variant: the commit keeps only the rows of this transaction.
MutCommitReplacesTable(table, pending) == pending

\* db.session.commit(): the rows the transaction inserted become stored.
Commit(table, pending) == table \cup pending

\* Variant: the rows inserted before the fault stay stored.
MutRollbackKeepsPending(table, pending) == table \cup pending

\* db.session.rollback(): the rows the transaction inserted are discarded.
Rollback(table, pending) == table

\* Where the database phase of ingest-data can fail; "execute" fails after
\* the statement has handled some of its rows.
IngestFaults == {"none", "consolidate", "build", "execute", "commit"}

\* Rows of the batch whose key is already stored or appears earlier in the
\* batch (what the command reports as ignored duplicates).
Colliding(table, rows) ==
    {k \in 1..Len(rows) :
        \/ \E rec \in table : UniqueKeyConflict(rec, rows[k])
        \/ \E j \in 1..(k - 1) : UniqueKeyConflict(rows[j], rows[k])}

(***************************************************************************)
(* flask ingest-data (full variant).                                       *)
(***************************************************************************)
\* What ingest-data leaves in last: the outcome, the fault that occurred,
\* the rows read, the rows ignored as duplicates and the rows the
\* transaction had inserted when it was rolled back.
IngestLast(status, fault, read, skipped, uncommitted) ==
    [op |-> "ingest-data", status |-> status, fault |-> fault,
     read |-> read, skipped |-> skipped, uncommitted |-> uncommitted]

IngestData(rows, fault, done) ==
    LET executed == IF fault \in {"none", "commit"} THEN Len(rows) ELSE done
        pending == InsertOnConflictDoNothing(store, rows, executed, nextId)
                       \ store
    IN  /\ IF fault = "consolidate"
           THEN /\ store' = Rollback(store, {})
                /\ nextId' = nextId
                /\ last' = IngestLast("rolled_back", fault, 0, 0, 0)
           ELSE IF rows = <<>>
           THEN /\ UNCHANGED <<store, nextId>>
                /\ last' = IngestLast("aborted", "none", 0, 0, 0)
           ELSE IF fault = "none"
           THEN /\ store' = Commit(store, pending)
                /\ nextId' = nextId + Cardinality(pending)
                /\ last' = IngestLast("saved", fault, Len(rows),
                                      Cardinality(Colliding(store, rows)), 0)
           ELSE /\ store' = Rollback(store, pending)
                /\ nextId' = nextId
                /\ last' = IngestLast("rolled_back", fault, Len(rows), 0,
                                      Cardinality(pending))
        /\ UNCHANGED <<cache, now, race>>

Ingest(universe) ==
    \E rows \in Batches(universe), fault \in IngestFaults :
        \E done \in 0..Len(rows) :
            /\ (fault = "execute") => done < Len(rows)
            /\ (fault # "execute") => done = 0
            /\ IngestData(rows, fault, done)

(***************************************************************************)
(* Forecast cache files of the instance directory.                         *)
(***************************************************************************)
\* city_name.lower().replace(' ', '_').replace('/', '_')
SafeCityName(city_name) ==
    [i \in 1..Len(city_name) |->
        LET ch == Lower(city_name[i])
        IN  IF ch = " " \/ ch = "/" THEN "_" ELSE ch]

\* os.path.join(instance_path, f"{safe_city_name}_forecast.json")
CachePath(city_name) == SafeCityName(city_name) \o <<"_forecast.json">>

CachePaths == {CachePath(c) : c \in RequestCities}

\* What a cache path holds: no file, a complete JSON document, or the
\* leading part of a document (possibly nothing) left by a failed write.
NoFile == [kind |-> "absent"]
PartialFile == [kind |-> "partial"]
DocFile(doc) == [kind |-> "doc", doc |-> doc]

\* os.path.exists(cache_path)
Exists(file) == file.kind # "absent"

\* json.load(f): only a complete document parses.
JsonLoads(file) == file.kind = "doc"

(***************************************************************************)
(* _load_and_prepare_data: the monthly series of a city.                   *)
(***************************************************************************)
\* WHERE lower(cidade) = lower(city_name)
CityRecords(table, city_name) ==
    {rec \in table : LowerName(rec.cidade) = LowerName(city_name)}

RECURSIVE SumMm(_)
SumMm(recs) ==
    IF recs = {} THEN 0
    ELSE LET rec == CHOOSE r \in recs : TRUE
         IN  rec.precipitacao_mm + SumMm(recs \ {rec})

FirstMonth(recs) ==
    CHOOSE i \in {MonthIndex(r.data) : r \in recs} :
        \A r \in recs : i <= MonthIndex(r.data)

LastMonth(recs) ==
    CHOOSE i \in {MonthIndex(r.data) : r \in recs} :
        \A r \in recs : i >= MonthIndex(r.data)

\* Variant: the series has only the months that have records.
MutMonthlySeriesRecordedOnly(recs) ==
    [i \in {MonthIndex(r.data) : r \in recs} |->
        SumMm({r \in recs : MonthIndex(r.data) = i})]

\* resample('MS').sum(): one total for every calendar month from the first
\* record's month to the last record's month, 0 for a month without records.
MonthlySeries(recs) ==
    [i \in FirstMonth(recs)..LastMonth(recs) |->
        SumMm({r \in recs : MonthIndex(r.data) = i})]

SeriesLen(series) == Cardinality(DOMAIN series)

\* Variant: exactly MINIMUM_DATA_POINTS months are rejected.
MutEnoughDataOffByOne(series) == SeriesLen(series) > MINIMUM_DATA_POINTS

\* The check "len(monthly_series) < MINIMUM_DATA_POINTS" passes.
EnoughData(series) == ~(SeriesLen(series) < MINIMUM_DATA_POINTS)

\* "ok" with the series, or the ValueError the function raises.
LoadAndPrepareData(table, city_name) ==
    LET recs == CityRecords(table, city_name)
    IN  IF recs = {}
        THEN [status |-> "not_found"]
        ELSE IF ~EnoughData(MonthlySeries(recs))
        THEN [status |-> "insufficient"]
        ELSE [status |-> "ok", series |-> MonthlySeries(recs)]

(***************************************************************************)
(* The fitted seasonal model (pmdarima, outside the repository): what      *)
(* predict() returns for step k of the horizon.  The values stand for the  *)
(* library's output and include negative predictions and negative lower    *)
(* bounds.                                                                 *)
(***************************************************************************)
FittedModels ==
    { [mean |-> 4, amp |-> 6, width |-> 3],
      [mean |-> 2, amp |-> 1, width |-> 2] }

\* Recorded when no model was fitted.
NoModel == [mean |-> 0, amp |-> 0, width |-> 0]

RawPrediction(model, k) == model.mean + model.amp * ((k % 3) - 1)
RawLower(model, k) == RawPrediction(model, k) - model.width
RawUpper(model, k) == RawPrediction(model, k) + model.width

(***************************************************************************)
(* Post-processing of generate_forecast_for_city.                          *)
(***************************************************************************)
\* Variant: no clipping.
MutClipIdentity(x) == x

\* Series.clip(lower=0)
Clip(x) == IF x < 0 THEN 0 ELSE x

CalendarMonth(i) == (i % 12) + 1

RECURSIVE SumSeries(_, _)
SumSeries(series, idx) ==
    IF idx = {} THEN 0
    ELSE LET i == CHOOSE j \in idx : TRUE
         IN  series[i] + SumSeries(series, idx \ {i})

\* Variant: a prediction of exactly 1.15 times the average is "above".
MutGetTrendInclusive(series, month, prediction) ==
    LET idx == {i \in DOMAIN series : CalendarMonth(i) = month}
        total == SumSeries(series, idx)
        count == Cardinality(idx)
    IN  IF count = 0 \/ total = 0 THEN "Sem referencia historica"
        ELSE IF prediction * count * 100 >= total * 115
        THEN "Acima da media historica"
        ELSE IF prediction * count * 100 < total * 85
        THEN "Abaixo da media historica"
        ELSE "Dentro da media historica"

\* get_trend: avg is the mean of the series over the months of the same
\* calendar month, kept as total / count and compared without dividing.
GetTrend(series, month, prediction) ==
    LET idx == {i \in DOMAIN series : CalendarMonth(i) = month}
        total == SumSeries(series, idx)
        count == Cardinality(idx)
    IN  IF count = 0 \/ total = 0 THEN "Sem referencia historica"
        ELSE IF prediction * count * 100 > total * 115
        THEN "Acima da media historica"
        ELSE IF prediction * count * 100 < total * 85
        THEN "Abaixo da media historica"
        ELSE "Dentro da media historica"

\* monthly_series.index.max() and .min()
SeriesLast(series) ==
    CHOOSE i \in DOMAIN series : (i + 1) \notin DOMAIN series
SeriesFirst(series) ==
    CHOOSE i \in DOMAIN series : (i - 1) \notin DOMAIN series

\* One record of forecast_df after clipping and trend labelling; the first
\* forecast month is the month after the last month of the series.
ForecastPoint(series, lastMonth, model, k) ==
    LET month == lastMonth + k
        predicted == Clip(RawPrediction(model, k))
    IN  [date |-> Date(month \div 12, CalendarMonth(month), 1),
         predicted_mm |-> predicted,
         conf_int_lower |-> Clip(RawLower(model, k)),
         conf_int_upper |-> RawUpper(model, k),
         tendencia |-> GetTrend(series, CalendarMonth(month), predicted)]

ForecastDf(series, model) ==
    LET lastMonth == SeriesLast(series)
    IN  [k \in 1..N_MONTHS |-> ForecastPoint(series, lastMonth, model, k)]

\* output_data, the document written to the cache file.
OutputData(city_name, series, forecast, generated_at) ==
    [city |-> city_name,
     temporal_serie_historical |-> <<SeriesFirst(series), SeriesLast(series)>>,
     forecast |-> forecast,
     generated_at |-> generated_at]

(***************************************************************************)
(* generate_forecast_for_city.                                             *)
(***************************************************************************)
\* Where a regeneration can fail besides the two ValueErrors of the load:
\* the query, the model search, predict, opening the cache file for
\* writing, and json.dump after the file has been opened (and truncated).
RegenFaults == {"none", "load", "fit", "predict", "open", "write"}

\* Variant: a cache of exactly CACHE_LIFETIME_DAYS days is still valid.
MutCacheValidInclusive(age) == age <= CACHE_LIFETIME_DAYS

\* cache_age < timedelta(days=CACHE_LIFETIME_DAYS)
CacheValid(age) == age < CACHE_LIFETIME_DAYS

\* What the call does: raised (an exception leaves the function), hasResult
\* with result (the returned forecast; None when hasResult is FALSE),
\* ranLoad / ranModel (the history load / the model search was started),
\* failure (the step that failed, "none" if none did) and file (what
\* cache_path holds afterwards).
Outcome(raised, hasResult, result, ranLoad, ranModel, failure, file) ==
    [raised |-> raised, hasResult |-> hasResult, result |-> result,
     ranLoad |-> ranLoad, ranModel |-> ranModel, failure |-> failure,
     file |-> file]

\* open(cache_path, 'w') followed by json.dump: a failing dump leaves the
\* truncated file behind.
WriteCache(old, doc, fault) ==
    IF fault = "write" THEN PartialFile ELSE DocFile(doc)

\* Lines 111-188: the try block.
Regenerate(table, city_name, file, clock, fault, model) ==
    LET loaded == LoadAndPrepareData(table, city_name)
    IN  IF fault = "load"
        THEN Outcome(FALSE, FALSE, <<>>, TRUE, FALSE, "load", file)
        ELSE IF loaded.status # "ok"
        THEN Outcome(FALSE, FALSE, <<>>, TRUE, FALSE, loaded.status, file)
        ELSE IF fault \in {"fit", "predict", "open"}
        THEN Outcome(FALSE, FALSE, <<>>, TRUE, TRUE, fault, file)
        ELSE LET forecast == ForecastDf(loaded.series, model)
                 doc == OutputData(city_name, loaded.series, forecast, clock)
                 written == WriteCache(file, doc, fault)
             IN  IF fault = "write"
                 THEN Outcome(FALSE, FALSE, <<>>, TRUE, TRUE, "write", written)
                 ELSE Outcome(FALSE, TRUE, forecast, TRUE, TRUE, "none", written)

\* Line 92: not force_regenerate and os.path.exists(cache_path)
CacheCheck(force_regenerate, file) == ~force_regenerate /\ Exists(file)

GenerateForecastForCity(table, city_name, file, clock, force, fault, model) ==
    IF CacheCheck(force, file)
    THEN IF ~JsonLoads(file)
         THEN Outcome(TRUE, FALSE, <<>>, FALSE, FALSE, "cache_parse", file)
         ELSE IF CacheValid(clock - file.doc.generated_at)
         THEN Outcome(FALSE, TRUE, file.doc.forecast, FALSE, FALSE, "none",
                      file)
         ELSE Regenerate(table, city_name, file, clock, fault, model)
    ELSE Regenerate(table, city_name, file, clock, fault, model)

(***************************************************************************)
(* Forecast handlers.                                                      *)
(***************************************************************************)
\* What a forecast handler leaves in last.
ForecastLast(op, city_name, force, status, out, model) ==
    [op |-> op, city |-> city_name, force |-> force, status |-> status,
     raised |-> out.raised, hasResult |-> out.hasResult,
     result |-> out.result, ranLoad |-> out.ranLoad,
     ranModel |-> out.ranModel, failure |-> out.failure,
     model |-> IF out.ranModel THEN model ELSE NoModel]

\* Line 361: create_or_update_forecast passes force_regenerate=True.
PostForce == TRUE

\* POST /forecast/by-city/<city_name>
CreateOrUpdateForecast(city_name, fault, model) ==
    LET path == CachePath(city_name)
        out == GenerateForecastForCity(store, city_name, cache[path], now,
                                       PostForce, fault, model)
        status == IF out.raised THEN 500
                  ELSE IF ~out.hasResult THEN 400
                  ELSE 201
    IN  /\ cache' = [cache EXCEPT ![path] = out.file]
        /\ last' = ForecastLast("POST /forecast", city_name, PostForce,
                                status, out, model)
        /\ UNCHANGED <<store, nextId, now, race>>

\* flask generate-forecast <city_name>: the service call without force, then
\* on a result the history is loaded again for the chart.
GenerateForecastCommand(city_name, fault, model) ==
    LET path == CachePath(city_name)
        out == GenerateForecastForCity(store, city_name, cache[path], now,
                                       FALSE, fault, model)
        status == IF out.raised THEN "crashed"
                  ELSE IF ~out.hasResult THEN "failed"
                  ELSE IF LoadAndPrepareData(store, city_name).status # "ok"
                  THEN "crashed"
                  ELSE "printed"
    IN  /\ cache' = [cache EXCEPT ![path] = out.file]
        /\ last' = ForecastLast("generate-forecast", city_name, FALSE,
                                status, out, model)
        /\ UNCHANGED <<store, nextId, now, race>>

\* GET /forecast/by-city/<city_name>: an exception of json.load is not caught
\* by the handler, the framework answers 500.
GetForecast(city_name) ==
    LET file == cache[CachePath(city_name)]
    IN  /\ last' = IF ~Exists(file)
                   THEN [op |-> "GET /forecast", city |-> city_name,
                         status |-> 404, raised |-> FALSE,
                         body |-> [error |-> "Previsao nao encontrada."]]
                   ELSE IF ~JsonLoads(file)
                   THEN [op |-> "GET /forecast", city |-> city_name,
                         status |-> 500, raised |-> TRUE,
                         body |-> [error |-> "Internal Server Error"]]
                   ELSE [op |-> "GET /forecast", city |-> city_name,
                         status |-> 200, raised |-> FALSE,
                         body |-> file.doc]
        /\ UNCHANGED <<store, nextId, cache, now, race>>

PostForecast ==
    \E c \in RequestCities, fault \in RegenFaults, model \in FittedModels :
        CreateOrUpdateForecast(c, fault, model)

GenerateForecast ==
    \E c \in RequestCities, fault \in RegenFaults, model \in FittedModels :
        GenerateForecastCommand(c, fault, model)

GetForecastRequest == \E c \in RequestCities : GetForecast(c)

\* Days that pass between two operations: one day short of the cache
\* lifetime, or exactly the cache lifetime.
TickDays == {CACHE_LIFETIME_DAYS - 1, CACHE_LIFETIME_DAYS}

\* The passing of time between two operations (datetime.now()).
Tick ==
    \E days \in TickDays :
    /\ now + days <= MaxNow
    /\ now' = now + days
    /\ last' = [op |-> "tick", status |-> "none"]
    /\ UNCHANGED <<store, nextId, cache, race>>

(***************************************************************************)
(* Regenerations that run at the same time.  No lock is taken on the cache *)
(* file, so the steps of one request (build output_data, open the file for *)
(* writing, write, close) interleave with the steps of the others.         *)
(***************************************************************************)
\* The requests that can be in flight together (two server workers).
Writers == {1, 2}

\* A request that has not started.
IdleWriter == [pc |-> "idle"]

\* No request in flight, nothing written yet.
NoRace == [writer |-> [w \in Writers |-> IdleWriter], lastWritten |-> <<>>]

\* The i-th of the n write() calls that json.dump of doc ends in; the
\* parts are taken to be of one size.
Chunk(doc, i, n) == [doc |-> <<doc>>, i |-> i, n |-> n]

\* Positions of a file that were skipped by a write beyond its end.
Hole == [doc |-> <<>>, i |-> 0, n |-> 0]

\* The bytes of the complete document.
DocBytes(doc, n) == [i \in 1..n |-> Chunk(doc, i, n)]

\* write() at the descriptor's own offset: the chunk replaces what the file
\* holds at that position and the file grows if it was shorter.
WriteAt(bytes, pos, chunk) ==
    [j \in 1..(IF pos > Len(bytes) THEN pos ELSE Len(bytes)) |->
        IF j = pos THEN chunk
        ELSE IF j <= Len(bytes) THEN bytes[j]
        ELSE Hole]

\* The bytes are exactly one document.
IsDocument(bytes) ==
    /\ bytes # <<>>
    /\ bytes[1].n = Len(bytes)
    /\ bytes = DocBytes(bytes[1].doc[1], bytes[1].n)

\* The bytes are the leading part of one document, possibly nothing.
IsLeadingPart(bytes) ==
    \/ bytes = <<>>
    \/ /\ bytes[1].n > Len(bytes)
       /\ \A j \in 1..Len(bytes) :
             bytes[j] = Chunk(bytes[1].doc[1], j, bytes[1].n)

\* What the cache path holds when its content is the given bytes; bytes
\* that are neither a document nor the leading part of one are kept as
\* "mixed" and do not parse.
FileOfBytes(bytes) ==
    IF IsDocument(bytes)
    THEN [kind |-> "doc", doc |-> bytes[1].doc[1], bytes |-> bytes]
    ELSE IF IsLeadingPart(bytes)
    THEN [kind |-> "partial", bytes |-> bytes]
    ELSE [kind |-> "mixed", bytes |-> bytes]

\* What a step that is not the end of a request leaves in last.
RunningLast(op) == [op |-> op, status |-> "running"]

\* POST /forecast up to the point where output_data is built (lines 111 to
\* 175); a request without enough history ends here with 400.  chunks is
\* the number of write() calls the document will take.
RaceBegin(w, city_name, model, chunks) ==
    LET loaded == LoadAndPrepareData(store, city_name)
        file == cache[CachePath(city_name)]
    IN  /\ race.writer[w].pc \in {"idle", "done"}
        /\ IF loaded.status # "ok"
           THEN /\ race' = race
                /\ last' = ForecastLast("POST /forecast", city_name,
                              PostForce, 400,
                              Outcome(FALSE, FALSE, <<>>, TRUE, FALSE,
                                      loaded.status, file),
                              model)
           ELSE /\ race' =
                     [race EXCEPT !.writer[w] =
                         [pc |-> "computed", city |-> city_name,
                          model |-> model, chunks |-> chunks, offset |-> 0,
                          doc |-> OutputData(city_name, loaded.series,
                                     ForecastDf(loaded.series, model), now)]]
                /\ last' = RunningLast("POST /forecast begin")
        /\ UNCHANGED <<store, nextId, cache, now>>

\* Line 177: open(cache_path, 'w') truncates the file.
RaceOpen(w) ==
    LET me == race.writer[w]
    IN  /\ me.pc = "computed"
        /\ cache' = [cache EXCEPT ![CachePath(me.city)] = FileOfBytes(<<>>)]
        /\ race' = [race EXCEPT !.writer[w].pc = "open"]
        /\ last' = RunningLast("POST /forecast open")
        /\ UNCHANGED <<store, nextId, now>>

\* Line 178: one write() of json.dump, at this request's offset; after the
\* last one the file is closed and the request answers 201.
RaceWrite(w) ==
    LET me == race.writer[w]
        path == CachePath(me.city)
        pos == me.offset + 1
        file == FileOfBytes(WriteAt(cache[path].bytes, pos,
                                    Chunk(me.doc, pos, me.chunks)))
        finished == pos = me.chunks
    IN  /\ me.pc = "open"
        /\ cache' = [cache EXCEPT ![path] = file]
        /\ race' = [writer |->
                       [race.writer EXCEPT ![w] =
                           [me EXCEPT !.offset = pos,
                                      !.pc = IF finished THEN "done"
                                             ELSE "open"]],
                    lastWritten |-> <<me.doc>>]
        /\ last' = IF finished
                   THEN ForecastLast("POST /forecast", me.city, PostForce,
                            201,
                            Outcome(FALSE, TRUE, me.doc.forecast, TRUE, TRUE,
                                    "none", file),
                            me.model)
                   ELSE RunningLast("POST /forecast write")
        /\ UNCHANGED <<store, nextId, now>>

\* Cities of the concurrent requests: two spellings of one cache path.
RaceCities == {CityAB, Cityab}

\* The model the search finds for the concurrent requests.
RaceModels == {[mean |-> 4, amp |-> 6, width |-> 3]}

RaceBeginStep ==
    \E w \in Writers, c \in RaceCities, model \in RaceModels,
       chunks \in 1..MaxChunks :
        RaceBegin(w, c, model, chunks)

RaceOpenStep == \E w \in Writers : RaceOpen(w)

RaceWriteStep == \E w \in Writers : RaceWrite(w)

(***************************************************************************)
(* Record and statistics endpoints (read-only queries).                    *)
(***************************************************************************)
\* All arrangements of a finite set as a sequence.
SeqsOf(S) ==
    {q \in [1..Cardinality(S) -> S] :
        \A i, j \in 1..Cardinality(S) : i # j => q[i] # q[j]}

Min(a, b) == IF a < b THEN a ELSE b

\* _record_to_dict
RecordToDict(rec) ==
    [id |-> rec.id, data |-> rec.data,
     precipitacao_mm |-> rec.precipitacao_mm, cidade |-> rec.cidade,
     estado |-> rec.estado, estacao_codigo |-> rec.estacao_codigo]

CharCode(ch) ==
    CASE ch = " " -> 32 [] ch = "/" -> 47 [] ch = "A" -> 65 [] ch = "B" -> 66
      [] ch = "_" -> 95 [] ch = "a" -> 97 [] ch = "b" -> 98 [] OTHER -> 0

\* String comparison of the ORDER BY cidade.
NameLessEq(a, b) ==
    \/ a = b
    \/ \E i \in 1..Min(Len(a), Len(b)) :
          /\ \A j \in 1..(i - 1) : a[j] = b[j]
          /\ CharCode(a[i]) < CharCode(b[i])
    \/ Len(a) < Len(b) /\ \A j \in 1..Len(a) : a[j] = b[j]

DateDescending(a, b) == a.data = b.data \/ DateLess(b.data, a.data)
RainDescending(a, b) == a.precipitacao_mm >= b.precipitacao_mm
PeriodAscending(a, b) ==
    a.ano < b.ano \/ (a.ano = b.ano /\ a.mes <= b.mes)

\* The ORDER BY clauses of the queries.
LessEq(order, a, b) ==
    CASE order = "cidade" -> NameLessEq(a, b)
      [] order = "data desc" -> DateDescending(a, b)
      [] order = "precipitacao_mm desc" -> RainDescending(a, b)
      [] order = "ano, mes" -> PeriodAscending(a, b)

\* ORDER BY: the arrangements that respect the order; rows that compare
\* equal come in any order.
OrderBy(S, order) ==
    {q \in SeqsOf(S) :
        \A i, j \in 1..Cardinality(S) : i < j => LessEq(order, q[i], q[j])}

\* GET /cities
GetAvailableCities ==
    \E body \in OrderBy({rec.cidade : rec \in store}, "cidade") :
        /\ last' = [op |-> "GET /cities", status |-> 200, body |-> body]
        /\ UNCHANGED <<store, nextId, cache, now, race>>

\* GET /records/by-city/<city_name>?page=&per_page=
GetRecordsByCity(city_name, page, per_page) ==
    \E sorted \in OrderBy(CityRecords(store, city_name), "data desc") :
        LET records == SubSeq(sorted, (page - 1) * per_page + 1,
                              Min(page * per_page, Len(sorted)))
        IN  /\ last' = IF records = <<>>
                       THEN [op |-> "GET /records/by-city",
                             city |-> city_name, status |-> 404,
                             body |-> <<>>]
                       ELSE [op |-> "GET /records/by-city",
                             city |-> city_name, status |-> 200,
                             body |-> [i \in 1..Len(records) |->
                                          RecordToDict(records[i])]]
            /\ UNCHANGED <<store, nextId, cache, now, race>>

IsLeap(y) == (y % 4 = 0 /\ y % 100 # 0) \/ y % 400 = 0

DaysInMonth(y, m) ==
    IF m = 2 THEN (IF IsLeap(y) THEN 29 ELSE 28)
    ELSE IF m \in {4, 6, 9, 11} THEN 30 ELSE 31

\* A date string is kept as the numbers between the "-" separators of its
\* date part and, when a time part follows the date part ("T10:00"), the
\* hour and minute of the time part.
DateStr(fields, time) == [fields |-> fields, time |-> time]

\* datetime.fromisoformat(date_str).date(): the date part must be a
\* four-digit year, a month and a day of the calendar; a time part is
\* accepted when it is a time of the day, and .date() drops it.
FromIsoFormat(date_str) ==
    IF /\ Len(date_str.fields) = 3
       /\ date_str.fields[1] \in 1000..9999
       /\ date_str.fields[2] \in 1..12
       /\ date_str.fields[3] \in
             1..DaysInMonth(date_str.fields[1], date_str.fields[2])
       /\ \/ date_str.time = <<>>
          \/ /\ Len(date_str.time) = 2
             /\ date_str.time[1] \in 0..23
             /\ date_str.time[2] \in 0..59
    THEN [ok |-> TRUE,
          date |-> Date(date_str.fields[1], date_str.fields[2],
                        date_str.fields[3])]
    ELSE [ok |-> FALSE]

\* "2010-01-01", "2012-12-01", "12-31-2020", "2010-02-30",
\* "2010-01-01T10:00", "2012-12-02T10:00" and "2010-01-01T25:00".
DateStrings ==
    { DateStr(<<2010, 1, 1>>, <<>>), DateStr(<<2012, 12, 1>>, <<>>),
      DateStr(<<12, 31, 2020>>, <<>>), DateStr(<<2010, 2, 30>>, <<>>),
      DateStr(<<2010, 1, 1>>, <<10, 0>>), DateStr(<<2012, 12, 2>>, <<10, 0>>),
      DateStr(<<2010, 1, 1>>, <<25, 0>>) }

\* GET /records/by-city/<city_name>/on-date/<date_str>
GetRecordForCityOnDate(city_name, date_str) ==
    LET parsed == FromIsoFormat(date_str)
        found == IF parsed.ok
                 THEN {rec \in CityRecords(store, city_name) :
                          rec.data = parsed.date}
                 ELSE {}
    IN  /\ \/ /\ ~parsed.ok
              /\ last' = [op |-> "GET /records/on-date", city |-> city_name,
                          date_str |-> date_str, status |-> 400,
                          body |-> <<>>]
           \/ /\ parsed.ok /\ found = {}
              /\ last' = [op |-> "GET /records/on-date", city |-> city_name,
                          date_str |-> date_str, status |-> 404,
                          body |-> <<>>]
           \/ /\ parsed.ok
              /\ \E rec \in found :
                    last' = [op |-> "GET /records/on-date",
                             city |-> city_name, date_str |-> date_str,
                             status |-> 200, body |-> <<RecordToDict(rec)>>]
        /\ UNCHANGED <<store, nextId, cache, now, race>>

\* GROUP BY ano, mes with SUM(precipitacao_mm)
MonthlyRows(recs) ==
    { [ano |-> p[1], mes |-> p[2],
       acumulado_mm |-> SumMm({r \in recs : r.data.y = p[1] /\ r.data.m = p[2]})] :
      p \in {<<r.data.y, r.data.m>> : r \in recs} }

\* GROUP BY ano with SUM(precipitacao_mm)
YearlyRows(recs) ==
    { [ano |-> y, mes |-> 0,
       acumulado_mm |-> SumMm({r \in recs : r.data.y = y})] :
      y \in {r.data.y : r \in recs} }

\* GET /stats/accumulation/monthly/by-city/<city_name>
GetMonthlyAccumulation(city_name) ==
    \E results \in OrderBy(MonthlyRows(CityRecords(store, city_name)),
                           "ano, mes") :
        /\ last' = [op |-> "GET /stats/monthly", city |-> city_name,
                    status |-> IF results = <<>> THEN 404 ELSE 200,
                    body |-> results]
        /\ UNCHANGED <<store, nextId, cache, now, race>>

\* GET /stats/accumulation/yearly/by-city/<city_name>
GetYearlyAccumulation(city_name) ==
    \E results \in OrderBy(YearlyRows(CityRecords(store, city_name)),
                           "ano, mes") :
        /\ last' = [op |-> "GET /stats/yearly", city |-> city_name,
                    status |-> IF results = <<>> THEN 404 ELSE 200,
                    body |-> [i \in 1..Len(results) |->
                                 [ano |-> results[i].ano,
                                  acumulado_mm |-> results[i].acumulado_mm]]]
        /\ UNCHANGED <<store, nextId, cache, now, race>>

\* GET /stats/extremes/by-city/<city_name>
GetCityExtremes(city_name) ==
    \E sorted \in OrderBy(CityRecords(store, city_name),
                          "precipitacao_mm desc") :
        /\ last' = IF sorted = <<>>
                   THEN [op |-> "GET /stats/extremes", city |-> city_name,
                         status |-> 404, body |-> <<>>]
                   ELSE [op |-> "GET /stats/extremes", city |-> city_name,
                         status |-> 200,
                         body |-> <<RecordToDict(sorted[1])>>]
        /\ UNCHANGED <<store, nextId, cache, now, race>>

\* One request to any of the read-only record endpoints.
RecordQuery ==
    \/ GetAvailableCities
    \/ \E c \in RequestCities, page \in {1, 2}, per_page \in {1, 100} :
          GetRecordsByCity(c, page, per_page)
    \/ \E c \in RequestCities, date_str \in DateStrings :
          GetRecordForCityOnDate(c, date_str)
    \/ \E c \in RequestCities : GetMonthlyAccumulation(c)
    \/ \E c \in RequestCities : GetYearlyAccumulation(c)
    \/ \E c \in RequestCities : GetCityExtremes(c)

(***************************************************************************)
(* CSV ingestion service: _process_single_file and                         *)
(* process_and_consolidate_data.  Metadata values are strings here.        *)
(***************************************************************************)
\* A line of a file as the metadata scan sees it: the marker it contains
\* ("none" for no marker, otherwise the metadata key the marker stands
\* for), whether a ";" follows the label, and the value after the first ";".
Line(marker, split, value) ==
    [marker |-> marker, split |-> split, value |-> value]

PlainLine == Line("none", TRUE, "")

\* A cell of the date column after pd.to_datetime: the calendar date and
\* the time of day (hour 0 for a cell that holds a date only).
Stamp(date, hour) == [date |-> date, hour |-> hour]

\* A row of the body: the date cell and the precipitation cell.
Reading(stamp, mm) == [data |-> stamp, mm |-> mm]

\* A file: its first lines (index 0 first), the stage at which its content
\* makes the processing fail ("none" for a well-formed file) and the rows
\* of its body.
CsvFile(lines, defect, body) ==
    [lines |-> lines, defect |-> defect, body |-> body]

\* Stages after the header read at which a file can fail: pd.read_csv, the
\* column lookup, pd.to_datetime, pd.to_numeric and the groupby.
FileDefects == {"csv", "columns", "date", "number", "aggregate"}

\* metadata = {} : a key that was never set is absent (NaN after reindex).
NoMetadata ==
    [raised |-> FALSE, cidade |-> "NaN", estado |-> "NaN",
     estacao_codigo |-> "NaN"]

\* Lines 17-24: the loop over enumerate(f) from index i on.  The line is
\* handled first and "if i > 8: break" is tested after it; split(';')[1]
\* on a marker line without ";" raises IndexError.
RECURSIVE ScanMetadata(_, _, _)
ScanMetadata(lines, i, metadata) ==
    IF i >= Len(lines) THEN metadata
    ELSE LET line == lines[i + 1]
             found == IF line.marker = "none" THEN metadata
                      ELSE IF ~line.split
                      THEN [metadata EXCEPT !.raised = TRUE]
                      ELSE [metadata EXCEPT ![line.marker] = line.value]
         IN  IF found.raised THEN found
             ELSE IF i > 8 THEN found
             ELSE ScanMetadata(lines, i + 1, found)

\* replace(-9999, np.nan) followed by fillna(0)
CleanReading(mm) == IF mm = -9999 THEN 0 ELSE mm

StampLess(a, b) ==
    DateLess(a.date, b.date) \/ (a.date = b.date /\ a.hour < b.hour)

RECURSIVE SumReadings(_, _)
SumReadings(body, idx) ==
    IF idx = {} THEN 0
    ELSE LET i == CHOOSE j \in idx : TRUE
         IN  CleanReading(body[i].mm) + SumReadings(body, idx \ {i})

\* groupby('data').agg(sum).reset_index(): one row per distinct value of
\* the data column, in ascending order, with the sum of its readings.
DailyRows(body) ==
    LET keys == {body[i].data : i \in 1..Len(body)}
        sorted == CHOOSE q \in SeqsOf(keys) :
                      \A i, j \in 1..Len(q) : i < j => StampLess(q[i], q[j])
    IN  [k \in 1..Len(sorted) |->
            [data |-> sorted[k],
             precipitacao_mm |->
                 SumReadings(body, {i \in 1..Len(body) :
                                       body[i].data = sorted[k]})]]

\* The returned DataFrame, or the exception that leaves the function.
FileResult(raised, rows) == [raised |-> raised, rows |-> rows]

\* _process_single_file: the header read, read_csv and the column lookup
\* sit in try blocks that return an empty DataFrame; lines 50 to 62 sit in
\* none.
ProcessSingleFile(file) ==
    LET metadata == ScanMetadata(file.lines, 0, NoMetadata)
        daily == DailyRows(file.body)
    IN  IF metadata.raised THEN FileResult(FALSE, <<>>)
        ELSE IF file.defect \in {"csv", "columns"}
        THEN FileResult(FALSE, <<>>)
        ELSE IF file.defect \in {"date", "number", "aggregate"}
        THEN FileResult(TRUE, <<>>)
        ELSE FileResult(FALSE,
                 [k \in 1..Len(daily) |->
                     [data |-> daily[k].data,
                      precipitacao_mm |-> daily[k].precipitacao_mm,
                      cidade |-> metadata.cidade,
                      estado |-> metadata.estado,
                      estacao_codigo |-> metadata.estacao_codigo]])

\* process_and_consolidate_data over the first k files of the directory:
\* the loop of lines 91 to 94 has no try block, empty results are left out
\* and the others are concatenated.
RECURSIVE ProcessAndConsolidateData(_, _)
ProcessAndConsolidateData(files, k) ==
    IF k = 0 THEN FileResult(FALSE, <<>>)
    ELSE LET before == ProcessAndConsolidateData(files, k - 1)
             processed_df == ProcessSingleFile(files[k])
         IN  IF before.raised THEN before
             ELSE IF processed_df.raised THEN FileResult(TRUE, <<>>)
             ELSE FileResult(FALSE, before.rows \o processed_df.rows)

\* flask ingest-data of the minimal application: consolidates the files of
\* the data directory and prints a sample, a warning or the error.
IngestDataMinimal(files) ==
    LET consolidated_data == ProcessAndConsolidateData(files, Len(files))
    IN  /\ last' = [op |-> "ingest-data (minimal)", files |-> files,
                    status |-> IF consolidated_data.raised THEN "error"
                               ELSE IF consolidated_data.rows = <<>>
                               THEN "warning"
                               ELSE "success",
                    raised |-> consolidated_data.raised,
                    rows |-> consolidated_data.rows]
        /\ UNCHANGED <<store, nextId, cache, now, race>>

\* Headers of eleven lines (indices 0 to 10).  The standard header has the
\* three markers in lines 0 to 2.
StdHeader ==
    <<Line("cidade", TRUE, "AB"), Line("estado", TRUE, "SC"),
      Line("estacao_codigo", TRUE, "A801"), PlainLine, PlainLine, PlainLine,
      PlainLine, PlainLine, PlainLine, PlainLine, PlainLine>>

\* The header with one more line put at index i.
HeaderWith(i, line) == [StdHeader EXCEPT ![i + 1] = line]

\* The standard header; a station marker moved to index 8; markers at
\* index 9 and 10 that repeat a key of lines 0 to 2; no city before index
\* 9; a marker line without ";".
Headers ==
    { StdHeader,
      HeaderWith(8, Line("estacao_codigo", TRUE, "A802")),
      HeaderWith(9, Line("cidade", TRUE, "XY")),
      HeaderWith(10, Line("cidade", TRUE, "XY")),
      [HeaderWith(9, Line("cidade", TRUE, "XY")) EXCEPT ![1] = PlainLine],
      HeaderWith(3, Line("estado", FALSE, "")) }

\* A body of two days, the second with a -9999 reading.
TwoDays ==
    <<Reading(Stamp(Date(2010, 1, 1), 0), 5),
      Reading(Stamp(Date(2010, 1, 2), 0), -9999)>>

\* Bodies: the two days; one date twice; one date at two times of day; a
\* -9999 reading and a reading on one date; no rows.
Bodies ==
    { TwoDays,
      <<Reading(Stamp(Date(2010, 1, 1), 0), 5),
        Reading(Stamp(Date(2010, 1, 1), 0), 9)>>,
      <<Reading(Stamp(Date(2010, 1, 1), 0), 5),
        Reading(Stamp(Date(2010, 1, 1), 12), 9)>>,
      <<Reading(Stamp(Date(2010, 1, 1), 0), -9999),
        Reading(Stamp(Date(2010, 1, 1), 0), 4)>>,
      <<>> }

\* Files of the data directory: every header, every body, and a file for
\* every stage that can fail.
CsvFiles ==
    {CsvFile(h, "none", TwoDays) : h \in Headers}
      \cup {CsvFile(StdHeader, "none", b) : b \in Bodies}
      \cup {CsvFile(StdHeader, d, TwoDays) : d \in FileDefects}

\* What glob finds: up to MaxFiles files.
Directories == UNION { [1..n -> CsvFiles] : n \in 0..MaxFiles }

\* The data directory as the operator has filled it.
DataDirectory(files) ==
    [op |-> "data directory", status |-> "none", files |-> files]

\* One run of the command over the directory's files.
IngestMinimal ==
    /\ last.op \in {"data directory", "ingest-data (minimal)"}
    /\ IngestDataMinimal(last.files)

Init ==
    /\ store = {}
    /\ nextId = 1
    /\ cache = [p \in CachePaths |-> NoFile]
    /\ now = 0
    /\ last = [op |-> "start", status |-> "none"]
    /\ race = NoRace

\* Every operation of the service, over an initially empty store.
Next ==
    \/ Ingest(FrameRows)
    \/ RecordQuery
    \/ GetForecastRequest
    \/ PostForecast
    \/ GenerateForecast
    \/ Tick

Spec == Init /\ [][Next]_vars

\* Runs of ingest-data alone.
NextIngest == Ingest(IncomingRows)

SpecIngest == Init /\ [][NextIngest]_vars

\* The table after ingest-data has stored the given rows in an empty table.
Ingested(rows) == InsertOnConflictDoNothing({}, rows, Len(rows), 1)

\* Stores left by earlier ingest-data runs: 35 months of history (February
\* 2010 to December 2012) and 36 months (January 2010 to December 2012).
SeedStores ==
    { Ingested(<<Row(Date(2010, 2, 1), 0, CityAB, "SC", "A801"),
                 Row(Date(2012, 12, 1), 3, CityAB, "SC", "A801")>>),
      Ingested(<<Row(Date(2010, 1, 1), 5, CityAB, "SC", "A801"),
                 Row(Date(2012, 12, 1), 3, CityAB, "SC", "A801")>>) }

InitForecast ==
    /\ store \in SeedStores
    /\ nextId = Cardinality(store) + 1
    /\ cache = [p \in CachePaths |-> NoFile]
    /\ now = 0
    /\ last = [op |-> "start", status |-> "none"]
    /\ race = NoRace

\* The forecast operations over a store that ingestion has filled.
NextForecast ==
    \/ GetForecastRequest
    \/ PostForecast
    \/ GenerateForecast
    \/ Tick

SpecForecast == InitForecast /\ [][NextForecast]_vars

\* Stores for the trend labels.  In the first the three Januaries and the
\* three Decembers of the range total 60 mm each (average 20, so 23 is 1.15
\* times and 17 is 0.85 times the average) and every other month 0; in the
\* second the January average is 5/3 and the December average 1.
TrendStores ==
    { Ingested(<<Row(Date(2010, 1, 1), 60, CityAB, "SC", "A801"),
                 Row(Date(2012, 12, 1), 60, CityAB, "SC", "A801")>>),
      Ingested(<<Row(Date(2010, 1, 1), 5, CityAB, "SC", "A801"),
                 Row(Date(2012, 12, 1), 3, CityAB, "SC", "A801")>>) }

\* Fitted models whose January prediction (mean) lies around 17 and 23 and
\* whose December prediction (mean - 6) lies around 17 and below.
TrendModels ==
    {[mean |-> m, amp |-> 6, width |-> 3] : m \in {16, 17, 18, 22, 23, 24}}

InitTrend ==
    /\ store \in TrendStores
    /\ nextId = Cardinality(store) + 1
    /\ cache = [p \in CachePaths |-> NoFile]
    /\ now = 0
    /\ last = [op |-> "start", status |-> "none"]
    /\ race = NoRace

PostTrend ==
    \E c \in RequestCities, model \in TrendModels :
        CreateOrUpdateForecast(c, "none", model)

GenerateTrend ==
    \E c \in RequestCities, model \in TrendModels :
        GenerateForecastCommand(c, "none", model)

\* Regenerations over the trend stores.
NextTrend ==
    \/ PostTrend
    \/ GenerateTrend

SpecTrend == InitTrend /\ [][NextTrend]_vars

InitFiles ==
    /\ store = {}
    /\ nextId = 1
    /\ cache = [p \in CachePaths |-> NoFile]
    /\ now = 0
    /\ last \in {DataDirectory(files) : files \in Directories}
    /\ race = NoRace

\* Runs of the minimal application's ingest-data over the files of the data
\* directory.
NextFiles == IngestMinimal

SpecFiles == InitFiles /\ [][NextFiles]_vars

\* The store of the concurrent requests: 36 months of history for one city.
RaceStore ==
    Ingested(<<Row(Date(2010, 1, 1), 5, CityAB, "SC", "A801"),
               Row(Date(2012, 12, 1), 3, CityAB, "SC", "A801")>>)

InitRace ==
    /\ store = RaceStore
    /\ nextId = Cardinality(store) + 1
    /\ cache = [p \in CachePaths |-> NoFile]
    /\ now = 0
    /\ last = [op |-> "start", status |-> "none"]
    /\ race = NoRace

GetForecastRace == \E c \in RaceCities : GetForecast(c)

\* POST /forecast requests of two workers, step by step, and GET /forecast
\* requests between their steps.
NextRace ==
    \/ RaceBeginStep
    \/ RaceOpenStep
    \/ RaceWriteStep
    \/ GetForecastRace

SpecRace == InitRace /\ [][NextRace]_vars

\* A store with two cities whose names differ by a space and an underscore,
\* each with 36 months of history.
KeyStore ==
    Ingested(<<Row(Date(2010, 1, 1), 5, CityAspB, "SC", "A803"),
               Row(Date(2012, 12, 1), 3, CityAspB, "SC", "A803"),
               Row(Date(2010, 1, 1), 7, CityAusB, "SC", "A804"),
               Row(Date(2012, 12, 1), 2, CityAusB, "SC", "A804")>>)

\* City names of the HTTP requests (a path parameter holds no "/") and of
\* the command line.
KeyCities == {Cityab, CityAspB, CityAusB}
KeyCitiesCli == KeyCities \cup {CityAslB}

InitKeys ==
    /\ store = KeyStore
    /\ nextId = Cardinality(store) + 1
    /\ cache = [p \in CachePaths |-> NoFile]
    /\ now = 0
    /\ last = [op |-> "start", status |-> "none"]
    /\ race = NoRace

PostKeys ==
    \E c \in KeyCities, fault \in RegenFaults, model \in RaceModels :
        CreateOrUpdateForecast(c, fault, model)

GenerateKeys ==
    \E c \in KeyCitiesCli, fault \in RegenFaults, model \in RaceModels :
        GenerateForecastCommand(c, fault, model)

GetKeys == \E c \in KeyCities : GetForecast(c)

\* The forecast operations for city names that share a cache path.
NextKeys ==
    \/ GetKeys
    \/ PostKeys
    \/ GenerateKeys
    \/ Tick

SpecKeys == InitKeys /\ [][NextKeys]_vars

(***************************************************************************)
(* Properties.                                                             *)
(***************************************************************************)
ForecastOps == {"POST /forecast", "generate-forecast"}

\* C1: after any ingest-data run the store holds at most one record per
\* (data, estacao_codigo); rows that collide with a stored record or with an
\* earlier row of the batch are skipped while the run still succeeds, every
\* stored record is kept as it was, and a run whose rows all collide leaves
\* the store as it was.
C1_ConflictTolerantUpsert ==
    [][ (last'.op = "ingest-data") =>
          /\ \A a, b \in store' :
                (a.data = b.data /\ a.estacao_codigo = b.estacao_codigo)
                    => a = b
          /\ store \subseteq store'
          /\ (last'.status = "saved") =>
                Cardinality(store') =
                    Cardinality(store) + last'.read - last'.skipped
          /\ (last'.status = "saved" /\ last'.skipped = last'.read) =>
                store' = store ]_vars

\* C1 witness: a successful run of two rows that both collided, over a
\* store that has records.
C1_Witness ==
    /\ last.op = "ingest-data"
    /\ last.status = "saved"
    /\ last.read = 2
    /\ last.skipped = 2
    /\ store # {}

\* C2: no step removes or changes a stored record, and only ingest-data
\* adds records.
C2_StoreOnlyGrows ==
    [][ /\ store \subseteq store'
        /\ (store' # store) => (last'.op = "ingest-data") ]_vars

\* C2 witness: a forecast has been generated by POST over a store that has
\* records.
C2_Witness ==
    /\ last.op = "POST /forecast"
    /\ last.status = 201
    /\ store # {}

\* C3: an ingest-data run with a fault in the database phase leaves the
\* store exactly as it was; a run changes the store only by committing all
\* rows of the batch that do not collide.
C3_AllOrNothing ==
    [][ (last'.op = "ingest-data") =>
          /\ (last'.status = "rolled_back") => store' = store
          /\ \/ store' = store
             \/ /\ last'.status = "saved"
                /\ Cardinality(store') =
                      Cardinality(store) + last'.read - last'.skipped ]_vars

\* C3 witness: the commit of a two-row batch failed after the transaction
\* had inserted both rows.
C3_Witness ==
    /\ last.op = "ingest-data"
    /\ last.status = "rolled_back"
    /\ last.fault = "commit"
    /\ last.uncommitted = 2

\* C4: generate_forecast_for_city starts the history load (and the model
\* search only after it) exactly when force_regenerate is set, or no cache
\* file exists, or the cached document is at least 7 days old; without
\* force and with a cached document younger than 7 days it returns the
\* cached forecast, runs nothing and leaves the cache as it is.
C4_CacheDecision ==
    [][ (last'.op \in ForecastOps) =>
          LET file == cache[CachePath(last'.city)]
              parsed == Exists(file) /\ JsonLoads(file)
          IN  /\ last'.ranLoad <=>
                    \/ last'.force
                    \/ ~Exists(file)
                    \/ parsed /\ now - file.doc.generated_at >= 7
              /\ last'.ranModel => last'.ranLoad
              /\ (~last'.force /\ parsed /\ now - file.doc.generated_at < 7)
                    => /\ last'.hasResult
                       /\ last'.result = file.doc.forecast
                       /\ ~last'.ranLoad
                       /\ ~last'.ranModel
                       /\ cache' = cache ]_vars

\* C4 witness: generate-forecast answered from a cache document that is 6
\* days old.
C4_Witness ==
    /\ last.op = "generate-forecast"
    /\ last.hasResult
    /\ ~last.ranLoad
    /\ cache[CachePath(last.city)].kind = "doc"
    /\ now - cache[CachePath(last.city)].doc.generated_at = 6

\* C5: GET /forecast answers 404 exactly when no cache file exists for the
\* city's path and otherwise 200 with the stored document, whatever its
\* age, and changes neither the cache nor the store; right after a
\* successful POST, a GET for the same city in any letter case returns the
\* document the POST wrote.
C5_GetForecastVerbatim ==
    [][ (last'.op = "GET /forecast") =>
          LET file == cache[CachePath(last'.city)]
          IN  /\ (last'.status = 404) <=> ~Exists(file)
              /\ Exists(file) =>
                    /\ last'.status = 200
                    /\ JsonLoads(file)
                    /\ last'.body = file.doc
              /\ cache' = cache
              /\ store' = store
              /\ (/\ last.op = "POST /forecast"
                  /\ last.status = 201
                  /\ LowerName(last.city) = LowerName(last'.city))
                    => /\ last'.status = 200
                       /\ last'.body.city = last.city
                       /\ last'.body.forecast = last.result ]_vars

\* C6: POST /forecast always forces regeneration and answers 201 when a
\* forecast was generated, 400 when the history is absent or insufficient,
\* and 500 when any other fault occurred during generation.
C6_PostStatus ==
    (last.op = "POST /forecast") =>
        /\ last.force
        /\ last.ranLoad
        /\ (last.failure = "none") => (last.status = 201 /\ last.hasResult)
        /\ (last.failure \in {"not_found", "insufficient"}) =>
              last.status = 400
        /\ (last.failure \in {"load", "fit", "predict", "open", "write"}) =>
              last.status = 500

\* C7: generate_forecast_for_city never raises to its caller: whatever
\* fails, the call returns without a result.
C7_NeverRaises ==
    (last.op \in ForecastOps) =>
        /\ ~last.raised
        /\ (last.failure # "none") => ~last.hasResult

\* C8: a call of generate_forecast_for_city that returns no result leaves
\* every cache file exactly as it was before the call.
C8_NoPartialCache ==
    [][ (last'.op \in ForecastOps /\ ~last'.raised /\ ~last'.hasResult) =>
          cache' = cache ]_vars

\* C9: a regeneration for a city whose history spans fewer than 36 months
\* (or that has no records) returns no result, POST answers 400 and the
\* cache stays as it was; with 36 months or more the history check passes.
C9_MinimumHistory ==
    [][ (last'.op \in ForecastOps /\ last'.ranLoad) =>
          LET recs == CityRecords(store, last'.city)
              months == IF recs = {} THEN 0
                        ELSE LastMonth(recs) - FirstMonth(recs) + 1
          IN  /\ (months < 36) =>
                    /\ ~last'.hasResult
                    /\ last'.failure \in {"not_found", "insufficient", "load"}
                    /\ (last'.op = "POST /forecast") => last'.status = 400
                    /\ cache' = cache
              /\ (months >= 36) =>
                    last'.failure \notin {"not_found", "insufficient"} ]_vars

\* C9 witness: POST answered 400 because the city's history is too short.
C9_Witness ==
    /\ last.op = "POST /forecast"
    /\ last.status = 400
    /\ last.failure = "insufficient"

\* C10: every forecast point returned or cached has predicted_mm >= 0 and
\* conf_int_lower >= 0; a regeneration turns a negative raw prediction or
\* lower bound into exactly 0, keeps the other raw values and writes the
\* returned points to the cache.
C10_ClampedAtZero ==
    /\ \A p \in CachePaths :
          (cache[p].kind = "doc") =>
              \A k \in 1..Len(cache[p].doc.forecast) :
                  /\ cache[p].doc.forecast[k].predicted_mm >= 0
                  /\ cache[p].doc.forecast[k].conf_int_lower >= 0
    /\ (last.op \in ForecastOps /\ last.hasResult /\ last.ranModel) =>
          /\ Len(last.result) = 12
          /\ \A k \in 1..12 :
                LET raw == RawPrediction(last.model, k)
                    rawLower == RawLower(last.model, k)
                IN  /\ last.result[k].predicted_mm =
                          (IF raw < 0 THEN 0 ELSE raw)
                    /\ last.result[k].conf_int_lower =
                          (IF rawLower < 0 THEN 0 ELSE rawLower)
          /\ cache[CachePath(last.city)].kind = "doc"
          /\ cache[CachePath(last.city)].doc.forecast = last.result

\* C10 witness: a regeneration whose model predicted a negative amount for
\* some month returned 0 for that month.
C10_Witness ==
    /\ last.op \in ForecastOps
    /\ last.hasResult
    /\ last.ranModel
    /\ \E k \in 1..12 :
          /\ RawPrediction(last.model, k) < 0
          /\ last.result[k].predicted_mm = 0

\* C11: on regeneration every forecast point carries exactly one of the four
\* trend labels, decided from its clamped prediction p and the average a of
\* the history over the same calendar month: no reference if a = 0,
\* otherwise above if p > 1.15 a, otherwise below if p < 0.85 a, otherwise
\* within (p equal to 1.15 a or to 0.85 a is within).  The average is the
\* month's total over the number of such months in the range.
C11_TrendLabels ==
    (last.op \in ForecastOps /\ last.hasResult /\ last.ranModel) =>
        \A k \in 1..Len(last.result) :
            LET point == last.result[k]
                p == point.predicted_mm
                recs == CityRecords(store, last.city)
                total == SumMm({r \in recs : r.data.m = point.date.m})
                count == Cardinality(
                             {i \in FirstMonth(recs)..LastMonth(recs) :
                                 (i % 12) + 1 = point.date.m})
            IN  /\ p >= 0
                /\ point.tendencia \in
                      {"Sem referencia historica", "Acima da media historica",
                       "Abaixo da media historica",
                       "Dentro da media historica"}
                /\ (point.tendencia = "Sem referencia historica")
                      <=> total = 0
                /\ (point.tendencia = "Acima da media historica")
                      <=> (total # 0 /\ 100 * p * count > 115 * total)
                /\ (point.tendencia = "Abaixo da media historica")
                      <=> (/\ total # 0
                           /\ 100 * p * count <= 115 * total
                           /\ 100 * p * count < 85 * total)

\* C11 witness: one regenerated forecast has a point of exactly 1.15 times
\* its month's average and a point of exactly 0.85 times its month's
\* average, both labelled within, and a point of a month without rain in
\* the history.
C11_Witness ==
    /\ last.op \in ForecastOps
    /\ last.hasResult
    /\ last.ranModel
    /\ SumMm({r \in CityRecords(store, last.city) : r.data.m = 1}) = 60
    /\ SumMm({r \in CityRecords(store, last.city) : r.data.m = 12}) = 60
    /\ last.result[1].date.m = 1
    /\ last.result[1].predicted_mm = 23
    /\ last.result[1].tendencia = "Dentro da media historica"
    /\ last.result[12].date.m = 12
    /\ last.result[12].predicted_mm = 17
    /\ last.result[12].tendencia = "Dentro da media historica"
    /\ last.result[2].tendencia = "Sem referencia historica"

\* C12: in process_and_consolidate_data a file that fails at any per-file
\* stage (header read, CSV parse, column lookup, date coercion, numeric
\* coercion, aggregation) is dropped as an empty result: the batch never
\* raises, it returns the rows of every other file, and it returns no row
\* when every file fails.
C12_BadFileIsDropped ==
    (last.op = "ingest-data (minimal)") =>
        LET files == last.files
            sound == {k \in 1..Len(files) :
                        /\ files[k].defect = "none"
                        /\ \A i \in 1..Len(files[k].lines) :
                              \/ files[k].lines[i].marker = "none"
                              \/ files[k].lines[i].split}
        IN  /\ ~last.raised
            /\ \A k \in sound :
                  \A j \in 1..Len(files[k].body) :
                      \E r \in 1..Len(last.rows) :
                          last.rows[r].data = files[k].body[j].data
            /\ (sound = {}) => last.rows = <<>>

\* C13: for every successfully processed file the per-file output has
\* exactly one row per distinct calendar date of the body, and that row's
\* precipitacao_mm is the sum of the file's readings of that date with
\* every reading of -9999 counted as 0; no row carries -9999 or a negative
\* contribution from it.
C13_OneRowPerCalendarDate ==
    (/\ last.op = "ingest-data (minimal)"
     /\ Len(last.files) = 1
     /\ last.status = "success") =>
        LET body == last.files[1].body
            dates == {body[i].data.date : i \in 1..Len(body)}
        IN  /\ Len(last.rows) = Cardinality(dates)
            /\ \A r \in 1..Len(last.rows) :
                  /\ last.rows[r].precipitacao_mm =
                        SumReadings(body,
                            {i \in 1..Len(body) :
                                body[i].data.date = last.rows[r].data.date})
                  /\ last.rows[r].precipitacao_mm >= 0

\* C16: the metadata scan of _process_single_file looks only at line
\* indices 0 to 8: the city, state and station code of the output rows are
\* those of the last marker line of each kind among indices 0 to 8 (absent
\* if there is none), and a marker line at index 9 or later neither sets
\* nor overrides them.
C16_ScanStopsAtIndex8 ==
    (/\ last.op = "ingest-data (minimal)"
     /\ Len(last.files) = 1
     /\ last.status = "success") =>
        LET lines == last.files[1].lines
            Scanned(key) ==
                {i \in 0..8 : i < Len(lines) /\ lines[i + 1].marker = key}
            Expected(key) ==
                IF Scanned(key) = {} THEN "NaN"
                ELSE lines[(CHOOSE i \in Scanned(key) :
                               \A j \in Scanned(key) : j <= i) + 1].value
        IN  \A r \in 1..Len(last.rows) :
                /\ last.rows[r].cidade = Expected("cidade")
                /\ last.rows[r].estado = Expected("estado")
                /\ last.rows[r].estacao_codigo = Expected("estacao_codigo")

\* C14: when two POST /forecast requests for one city run at the same time,
\* once both have finished the cache file is exactly the complete document
\* of the request that wrote last, never a mixture of the two documents.
C14_LastWriterWins ==
    (\A w \in Writers : race.writer[w].pc = "done") =>
        LET doc == race.lastWritten[1]
            file == cache[CachePath(doc.city)]
        IN  /\ file.kind = "doc"
            /\ file.doc = doc

\* C19: a GET /forecast that runs while a regeneration for the same city is
\* in progress finds no cache file (404), or the complete previous
\* document, or the complete new document; it never reads an empty or
\* partly written file and never fails with an unhandled error.
C19_NoTornRead ==
    (last.op = "GET /forecast" /\ last.city \in RaceCities) =>
        LET file == cache[CachePath(last.city)]
        IN  /\ ~last.raised
            /\ last.status \in {404, 200}
            /\ (last.status = 404) <=> (file.kind = "absent")
            /\ (last.status = 200) =>
                  /\ file.kind = "doc"
                  /\ last.body = file.doc

\* C15: GET /records/by-city/<city>/on-date/<date> answers 400 for every
\* date string that is not a date of the calendar written as YYYY-MM-DD,
\* 404 for such a date without a record of the city, and otherwise 200
\* with one record of that city and date.
C15_OnDateStatus ==
    (last.op = "GET /records/on-date") =>
        LET fields == last.date_str.fields
            wellFormed ==
                /\ last.date_str.time = <<>>
                /\ Len(fields) = 3
                /\ fields[1] \in 1000..9999
                /\ fields[2] \in 1..12
                /\ fields[3] \in 1..DaysInMonth(fields[1], fields[2])
            matching ==
                {rec \in store :
                    /\ LowerName(rec.cidade) = LowerName(last.city)
                    /\ rec.data = Date(fields[1], fields[2], fields[3])}
        IN  /\ ~wellFormed => last.status = 400
            /\ (wellFormed /\ matching = {}) => last.status = 404
            /\ (wellFormed /\ matching # {}) =>
                  /\ last.status = 200
                  /\ Len(last.body) = 1
                  /\ \E rec \in matching : last.body[1] = RecordToDict(rec)

\* C17: the number of monthly points compared with 36 is the number of
\* calendar months from the month of the city's earliest record to the
\* month of its latest record inclusive, not the number of months that
\* have records: a month of the range without records is in the series
\* with total 0 (and counts in the month's average), so a city with records
\* in two months 35 months apart passes the check.
C17_SpanNotCount ==
    (last.op \in ForecastOps /\ last.ranLoad /\ last.failure # "load") =>
        LET recs == CityRecords(store, last.city)
            span == LastMonth(recs) - FirstMonth(recs) + 1
        IN  (recs # {}) =>
                /\ (last.failure = "insufficient") <=> (span < 36)
                /\ (last.hasResult /\ last.ranModel) =>
                      LET doc == cache[CachePath(last.city)].doc
                      IN  /\ doc.temporal_serie_historical[2]
                                - doc.temporal_serie_historical[1] + 1 = span
                          /\ \A k \in 1..Len(last.result) :
                                LET point == last.result[k]
                                    total == SumMm({r \in recs :
                                                 r.data.m = point.date.m})
                                    months ==
                                        {i \in FirstMonth(recs)..LastMonth(recs) :
                                            (i % 12) + 1 = point.date.m}
                                IN  (point.tendencia =
                                         "Acima da media historica")
                                      <=> (/\ total # 0
                                           /\ 100 * point.predicted_mm
                                                * Cardinality(months)
                                                > 115 * total)

\* C17 witness: a forecast was generated for a city that has records in
\* two months only, 35 months apart, and the January point is above the
\* average of 5/3 taken over the three Januaries of the range.
C17_Witness ==
    /\ last.op \in ForecastOps
    /\ last.hasResult
    /\ last.ranModel
    /\ Cardinality({MonthIndex(r.data) :
                       r \in CityRecords(store, last.city)}) = 2
    /\ LastMonth(CityRecords(store, last.city))
          - FirstMonth(CityRecords(store, last.city)) = 35
    /\ last.result[1].date.m = 1
    /\ last.result[1].predicted_mm = 2
    /\ last.result[1].tendencia = "Acima da media historica"

\* C18: a forecast that GET /forecast or the non-forced path of
\* generate_forecast_for_city returns for a requested city comes from a
\* cache document whose city equals the requested name ignoring letter
\* case, and a regeneration
\* overwrites only a document of such a city: names that differ beyond
\* letter case never read or overwrite each other's cache file.
C18_CacheKeyedByCity ==
    [][ /\ (last'.op = "GET /forecast" /\ last'.status = 200) =>
              LowerName(last'.body.city) = LowerName(last'.city)
        /\ (/\ last'.op = "generate-forecast"
            /\ last'.hasResult
            /\ ~last'.ranLoad) =>
              LowerName(cache[CachePath(last'.city)].doc.city)
                  = LowerName(last'.city)
        /\ (last'.op \in ForecastOps) =>
              \A p \in CachePaths :
                  (cache'[p] # cache[p] /\ cache[p].kind = "doc") =>
                      LowerName(cache[p].doc.city) = LowerName(last'.city)
      ]_vars
====
